---- MODULE Spec2Model ----
(***************************************************************************)
(* pub_scraper: PubMed search aggregation and e-mail report.               *)
(*                                                                         *)
(* A Python string is modelled as a sequence of tokens (a token is a run   *)
(* of ordinary characters, or one of the characters the code splits on).   *)
(* An OrderedDict is a sequence of <<key, value>> pairs.                   *)
(***************************************************************************)
EXTENDS Integers, Sequences, FiniteSets, TLC

(***************************************************************************)
(* Bounds of the model.                                                    *)
(***************************************************************************)
\* longest configured term list of one category
MaxTerms == 2
\* longest identifier list handed to fetch_pubs_from_ID_list on its own
MaxIDList == 3
\* longest settings file, in lines
MaxLines == 3

\* configured terms of a whole run, over the three categories
MaxTotalTerms == MaxTerms + 1

RECURSIVE SeqsOfLen(_, _)
SeqsOfLen(S, n) ==
  IF n = 0 THEN {<<>>}
  ELSE {Append(s, x) : s \in SeqsOfLen(S, n - 1), x \in S}

SeqsUpTo(S, n) == UNION {SeqsOfLen(S, k) : k \in 0..n}

(***************************************************************************)
(* Python built-ins used by the code.                                      *)
(***************************************************************************)
Whitespace == {" ", "\n"}

\* str.split(sep): the pieces between occurrences of sep, empty ones kept
RECURSIVE SplitOnAcc(_, _, _, _)
SplitOnAcc(s, sep, cur, acc) ==
  IF s = <<>> THEN Append(acc, cur)
  ELSE IF Head(s) = sep THEN SplitOnAcc(Tail(s), sep, <<>>, Append(acc, cur))
  ELSE SplitOnAcc(Tail(s), sep, Append(cur, Head(s)), acc)

SplitOn(s, sep) == SplitOnAcc(s, sep, <<>>, <<>>)

\* str.split(): the maximal runs of non-whitespace, none of them empty
RECURSIVE SplitAcc(_, _, _)
SplitAcc(s, cur, acc) ==
  IF s = <<>> THEN (IF cur = <<>> THEN acc ELSE Append(acc, cur))
  ELSE IF Head(s) \in Whitespace
       THEN SplitAcc(Tail(s), <<>>, IF cur = <<>> THEN acc ELSE Append(acc, cur))
  ELSE SplitAcc(Tail(s), Append(cur, Head(s)), acc)

Split(s) == SplitAcc(s, <<>>, <<>>)

\* str.strip(): leading and trailing whitespace removed
RECURSIVE LStrip(_)
LStrip(s) ==
  IF s # <<>> /\ Head(s) \in Whitespace THEN LStrip(Tail(s)) ELSE s

RECURSIVE RStrip(_)
RStrip(s) ==
  IF s # <<>> /\ s[Len(s)] \in Whitespace THEN RStrip(SubSeq(s, 1, Len(s) - 1)) ELSE s

Strip(s) == RStrip(LStrip(s))

\* sep.join(parts)
RECURSIVE Join(_, _)
Join(sep, parts) ==
  IF parts = <<>> THEN <<>>
  ELSE IF Len(parts) = 1 THEN parts[1]
  ELSE parts[1] \o sep \o Join(sep, Tail(parts))

\* d[k] = v on an OrderedDict: an existing key keeps its place and takes the
\* new value, a new key goes to the end
ODSetKeepFirst(d, k, v) ==
  IF \E n \in 1..Len(d) : d[n][1] = k THEN d ELSE Append(d, <<k, v>>)

ODSetFront(d, k, v) ==
  <<<<k, v>>>> \o SelectSeq(d, LAMBDA e : e[1] # k)

ODSet(d, k, v) ==
  IF \E n \in 1..Len(d) : d[n][1] = k
  THEN [n \in 1..Len(d) |-> IF d[n][1] = k THEN <<k, v>> ELSE d[n]]
  ELSE Append(d, <<k, v>>)

ODKeys(d) == [n \in 1..Len(d) |-> d[n][1]]

(***************************************************************************)
(* Inputs of a run.                                                        *)
(***************************************************************************)
Keywords == {<<"crispr">>, <<"gene", " ", "drive">>}

Authors == {<<"Smith", " ", "A">>, <<"Lee", " ", "B">>}

\* lines of the journal_and_topics setting, "journal=[topic,topic]"
JournalTopicLines ==
  { <<"Nature", "=", "[", "aging", "]">>,
    <<"Nature", "=", "[", "aging", ",", "longevity", "]">>,
    <<"Cell", "=", "[", "longevity", "]">> }

EntrezEmails == {<<"user@example.org">>}

PubDays == {7}

\* identifier lists a search call can return
IdLists == {<<>>, <<"222", "111">>}

IDs == {"111", "222", "333"}

\* what one per-identifier lookup can do: PubMedLookup and Publication both
\* succeed; Publication(lookup) raises; PubMedLookup(ID, email) raises
LookupOutcomes == {"ok", "bad_record", "lookup_error"}

Settings ==
  { s \in [ entrez_email : EntrezEmails,
            search_keywords : SeqsUpTo(Keywords, MaxTerms),
            search_authors : SeqsUpTo(Authors, MaxTerms),
            journal_and_topics : SeqsUpTo(JournalTopicLines, MaxTerms),
            pub_days_ago : PubDays ] :
      Len(s.search_keywords) + Len(s.search_authors)
        + Len(s.journal_and_topics) <= MaxTotalTerms }

database == <<"pubmed">>

VARIABLES
  settings,                   \* main: the values read from settings_dict
  pc,                         \* main: where the run is
  i,                          \* position of the running for loop
  results_by_term,            \* search_by_*: the mapping being built
  keyword_results, author_results, journal_topic_results,
  data_dict,                  \* build_result_dict: the mapping being built
  keyword_publications, author_publications, journal_topic_publications,
  ID_list, entrez_email, fi, result_list, fpc,   \* fetch_pubs_from_ID_list
  search_log,                 \* the entrezSearch calls issued, in order
  lookup_log,                 \* the PubMedLookup calls issued, in order
  all_results_dict, total_hits, message_body, mail,
  search_file, fpos, ppc, key, settings_dict     \* parse_search_file

searchVars == <<results_by_term, keyword_results, author_results,
                journal_topic_results, search_log>>
buildVars == <<data_dict, keyword_publications, author_publications,
               journal_topic_publications>>
fetchVars == <<ID_list, entrez_email, fi, result_list, fpc, lookup_log>>
reportVars == <<all_results_dict, total_hits, message_body, mail>>
parseVars == <<search_file, fpos, ppc, key, settings_dict>>
vars == <<settings, pc, i, searchVars, buildVars, fetchVars, reportVars, parseVars>>

(***************************************************************************)
(* Term Expander / Search Executor (entrezUtils.py)                        *)
(***************************************************************************)
FormatKeyword(term) == Join(<<"+">>, Split(term)) \o <<"[Title/Abstract]">>

FormatAuthor(term) == term \o <<"[Author]">>

FormatJournalTopic(journal, topic_list) ==
  journal \o <<"[Journal] AND (">> \o Join(<<" OR ">>, topic_list) \o <<")">>

\* parse_journal_topics: topics keyed by journal, in order of first appearance
RECURSIVE parse_journal_topics_from(_, _)
parse_journal_topics_from(journal_topic_list, journal_topic_dict) ==
  IF journal_topic_list = <<>> THEN journal_topic_dict
  ELSE LET parts == SplitOn(Head(journal_topic_list), "=")
           journal == parts[1]
           stripped == Strip(parts[2])
           topic_list == SplitOn(SubSeq(stripped, 2, Len(stripped) - 1), ",")
       IN parse_journal_topics_from(Tail(journal_topic_list),
            ODSet(journal_topic_dict, journal, topic_list))

parse_journal_topics(journal_topic_list) ==
  parse_journal_topics_from(journal_topic_list, <<>>)

journal_topic_dict == parse_journal_topics(settings.journal_and_topics)

\* A search call that raises: nothing in the search functions or in main
\* catches it, so the run ends there.
OnSearchRaiseContinue(p) == p

OnSearchRaise(p) == "raised"

\* entrezSearch(term=formatted_term, ...) called from a search function for
\* the mapping key k: it returns an identifier list or raises
SearchCall(fn, k, formatted_term) ==
  \/ \E ids \in IdLists :
       /\ search_log' = Append(search_log,
            [fn |-> fn, key |-> k, term |-> formatted_term, ok |-> TRUE, ids |-> ids])
       /\ results_by_term' = ODSet(results_by_term, k, ids)
       /\ i' = i + 1
       /\ pc' = pc
  \/ /\ search_log' = Append(search_log,
            [fn |-> fn, key |-> k, term |-> formatted_term, ok |-> FALSE, ids |-> <<>>])
     /\ pc' = OnSearchRaise(pc)
     /\ UNCHANGED <<results_by_term, i>>

search_by_keywords_step ==
  /\ pc = "search_keywords"
  /\ i <= Len(settings.search_keywords)
  /\ LET term == settings.search_keywords[i]
     IN SearchCall("keywords", term, FormatKeyword(term))
  /\ UNCHANGED <<settings, keyword_results, author_results, journal_topic_results,
                 buildVars, fetchVars, reportVars, parseVars>>

search_by_keywords_return ==
  /\ pc = "search_keywords"
  /\ i > Len(settings.search_keywords)
  /\ keyword_results' = results_by_term
  /\ results_by_term' = <<>>
  /\ i' = 1
  /\ pc' = "search_authors"
  /\ UNCHANGED <<settings, author_results, journal_topic_results, search_log,
                 buildVars, fetchVars, reportVars, parseVars>>

search_by_authors_step ==
  /\ pc = "search_authors"
  /\ i <= Len(settings.search_authors)
  /\ LET term == settings.search_authors[i]
     IN SearchCall("authors", term, FormatAuthor(term))
  /\ UNCHANGED <<settings, keyword_results, author_results, journal_topic_results,
                 buildVars, fetchVars, reportVars, parseVars>>

search_by_authors_return ==
  /\ pc = "search_authors"
  /\ i > Len(settings.search_authors)
  /\ author_results' = results_by_term
  /\ results_by_term' = <<>>
  /\ i' = 1
  /\ pc' = "search_journal_topic"
  /\ UNCHANGED <<settings, keyword_results, journal_topic_results, search_log,
                 buildVars, fetchVars, reportVars, parseVars>>

search_by_journal_and_topic_step ==
  /\ pc = "search_journal_topic"
  /\ i <= Len(journal_topic_dict)
  /\ LET journal == journal_topic_dict[i][1]
         topic_list == journal_topic_dict[i][2]
         formatted_term == FormatJournalTopic(journal, topic_list)
     IN SearchCall("journal_topic", formatted_term, formatted_term)
  /\ UNCHANGED <<settings, keyword_results, author_results, journal_topic_results,
                 buildVars, fetchVars, reportVars, parseVars>>

search_by_journal_and_topic_return ==
  /\ pc = "search_journal_topic"
  /\ i > Len(journal_topic_dict)
  /\ journal_topic_results' = results_by_term
  /\ results_by_term' = <<>>
  /\ i' = 1
  /\ pc' = "build_keyword"
  /\ UNCHANGED <<settings, keyword_results, author_results, search_log,
                 buildVars, fetchVars, reportVars, parseVars>>

(***************************************************************************)
(* Publication Fetcher (entrezUtils.py) and Result Aggregator              *)
(***************************************************************************)
\* Publication(lookup): the record of one identifier
Publication(ID) ==
  [ url |-> <<"url", ID>>, title |-> <<"title", ID>>,
    journal |-> <<"journal", ID>>, authors |-> <<"authors", ID>> ]

\* try: result_list.append(Publication(lookup)) / except: pass
AfterPublication(rl, ID, outcome) ==
  IF outcome = "ok" THEN Append(rl, Publication(ID)) ELSE rl

\* one turn of "for ID in ID_list": PubMedLookup(ID, entrez_email) is called
\* outside the try, Publication(lookup) inside it
fetch_pubs_from_ID_list_step ==
  /\ fpc = "loop"
  /\ fi <= Len(ID_list)
  /\ \E outcome \in LookupOutcomes :
       /\ lookup_log' = Append(lookup_log,
            [id |-> ID_list[fi], email |-> entrez_email, outcome |-> outcome])
       /\ IF outcome = "lookup_error"
          THEN /\ fpc' = "raised"
               /\ UNCHANGED <<fi, result_list>>
          ELSE /\ result_list' = AfterPublication(result_list, ID_list[fi], outcome)
               /\ fi' = fi + 1
               /\ fpc' = fpc
  /\ UNCHANGED <<settings, pc, i, searchVars, buildVars, ID_list, entrez_email,
                 reportVars, parseVars>>

fetch_pubs_from_ID_list_return ==
  /\ fpc = "loop"
  /\ fi > Len(ID_list)
  /\ fpc' = "returned"
  /\ UNCHANGED <<settings, pc, i, searchVars, buildVars, ID_list, entrez_email,
                 fi, result_list, lookup_log, reportVars, parseVars>>

BuildPcs == {"build_keyword", "build_author", "build_journal_topic"}

\* the search_dict argument of the running build_result_dict call
search_dict ==
  CASE pc = "build_keyword" -> keyword_results
    [] pc = "build_author" -> author_results
    [] pc = "build_journal_topic" -> journal_topic_results
    [] OTHER -> <<>>

\* the second argument main gives build_result_dict, which hands it on to
\* fetch_pubs_from_ID_list as entrez_email
build_result_dict_arg == database

build_result_dict_call ==
  /\ pc \in BuildPcs
  /\ fpc = "idle"
  /\ i <= Len(search_dict)
  /\ ID_list' = search_dict[i][2]
  /\ entrez_email' = build_result_dict_arg
  /\ fi' = 1
  /\ result_list' = <<>>
  /\ fpc' = "loop"
  /\ UNCHANGED <<settings, pc, i, searchVars, buildVars, lookup_log,
                 reportVars, parseVars>>

build_result_dict_store ==
  /\ pc \in BuildPcs
  /\ fpc = "returned"
  /\ data_dict' = ODSet(data_dict, search_dict[i][1], result_list)
  /\ i' = i + 1
  /\ fpc' = "idle"
  /\ UNCHANGED <<settings, pc, searchVars, keyword_publications,
                 author_publications, journal_topic_publications, ID_list,
                 entrez_email, fi, result_list, lookup_log, reportVars, parseVars>>

build_result_dict_return ==
  /\ pc \in BuildPcs
  /\ fpc = "idle"
  /\ i > Len(search_dict)
  /\ keyword_publications' =
       IF pc = "build_keyword" THEN data_dict ELSE keyword_publications
  /\ author_publications' =
       IF pc = "build_author" THEN data_dict ELSE author_publications
  /\ journal_topic_publications' =
       IF pc = "build_journal_topic" THEN data_dict ELSE journal_topic_publications
  /\ data_dict' = <<>>
  /\ i' = 1
  /\ pc' = CASE pc = "build_keyword" -> "build_author"
             [] pc = "build_author" -> "build_journal_topic"
             [] OTHER -> "report"
  /\ UNCHANGED <<settings, searchVars, fetchVars, reportVars, parseVars>>

(***************************************************************************)
(* Report Composer (pub_scraper.py)                                        *)
(***************************************************************************)
AllResults(kp, ap, jp) ==
  << <<"Keyword Searches", kp>>,
     <<"Author Searches", ap>>,
     <<"Journal and Topic Searches", jp>> >>

RECURSIVE SumLens(_)
SumLens(result_dict) ==
  IF result_dict = <<>> THEN 0
  ELSE Len(Head(result_dict)[2]) + SumLens(Tail(result_dict))

RECURSIVE CountTermsWithHits(_)
CountTermsWithHits(results) ==
  IF results = <<>> THEN 0
  ELSE Len(SelectSeq(Head(results)[2], LAMBDA e : Len(e[2]) > 0))
         + CountTermsWithHits(Tail(results))

\* total_hits: the two nested loops over all_results_dict
RECURSIVE TotalHits(_)
TotalHits(results) ==
  IF results = <<>> THEN 0
  ELSE SumLens(Head(results)[2]) + TotalHits(Tail(results))

\* the three lines appended for each pub of a non-empty pub_list
RECURSIVE RenderPubs(_)
RenderPubs(pub_list) ==
  IF pub_list = <<>> THEN <<>>
  ELSE << <<"title", Head(pub_list).url, Head(pub_list).title>>,
          <<"journal", Head(pub_list).journal>>,
          <<"authors", Head(pub_list).authors>> >> \o RenderPubs(Tail(pub_list))

RenderTermNoticeUpToOne(term, pub_list, pub_days_ago) ==
  <<<<"h4", term>>>> \o
    (IF Len(pub_list) <= 1
     THEN <<<<"none", term, pub_days_ago>>>>
     ELSE RenderPubs(pub_list))

RenderTerm(term, pub_list, pub_days_ago) ==
  <<<<"h4", term>>>> \o
    (IF Len(pub_list) < 1
     THEN <<<<"none", term, pub_days_ago>>>>
     ELSE RenderPubs(pub_list))

RECURSIVE RenderTerms(_, _)
RenderTerms(result_dict, pub_days_ago) ==
  IF result_dict = <<>> THEN <<>>
  ELSE RenderTerm(Head(result_dict)[1], Head(result_dict)[2], pub_days_ago)
         \o RenderTerms(Tail(result_dict), pub_days_ago)

RenderSection(section, result_dict, pub_days_ago) ==
  <<<<"h2", section>>>> \o RenderTerms(result_dict, pub_days_ago)

html_header == <<<<"header">>>>

html_tail == <<<<"tail">>>>

construct_email_body_skip_empty(results, pub_days_ago) ==
  LET kept == SelectSeq(results, LAMBDA e : e[2] # <<>>)
      report_sections ==
        [n \in 1..Len(kept) |-> RenderSection(kept[n][1], kept[n][2], pub_days_ago)]
  IN Join(<<<<"nl">>>>, <<html_header, Join(<<<<"br">>>>, report_sections), html_tail>>)

construct_email_body(results, pub_days_ago) ==
  LET report_sections ==
        [n \in 1..Len(results) |->
           RenderSection(results[n][1], results[n][2], pub_days_ago)]
  IN Join(<<<<"nl">>>>, <<html_header, Join(<<<<"br">>>>, report_sections), html_tail>>)

\* main, from "All results" to the end: the results, the hit count of the
\* subject, the body, and the hand-over to the mail server, which may fail
report ==
  /\ pc = "report"
  /\ all_results_dict' = AllResults(keyword_publications, author_publications,
                                    journal_topic_publications)
  /\ total_hits' = TotalHits(all_results_dict')
  /\ message_body' = construct_email_body(all_results_dict', settings.pub_days_ago)
  /\ \E outcome \in {"sent", "failed"} : mail' = outcome
  /\ pc' = "done"
  /\ UNCHANGED <<settings, i, searchVars, buildVars, fetchVars, parseVars>>

(***************************************************************************)
(* A run of main from the settings on. The settings are taken as read;     *)
(* parse_search_file, which reads them, is modelled on its own below.      *)
(***************************************************************************)
NoParse ==
  /\ search_file = <<>>
  /\ fpos = 1
  /\ ppc = "off"
  /\ key = <<>>
  /\ settings_dict = <<>>

NoReport ==
  /\ all_results_dict = <<>>
  /\ total_hits = 0
  /\ message_body = <<>>
  /\ mail = "none"

NoResults ==
  /\ results_by_term = <<>>
  /\ keyword_results = <<>>
  /\ author_results = <<>>
  /\ journal_topic_results = <<>>
  /\ search_log = <<>>
  /\ data_dict = <<>>
  /\ keyword_publications = <<>>
  /\ author_publications = <<>>
  /\ journal_topic_publications = <<>>

Init ==
  /\ settings \in Settings
  /\ pc = "search_keywords"
  /\ i = 1
  /\ NoResults
  /\ ID_list = <<>>
  /\ entrez_email = <<>>
  /\ fi = 1
  /\ result_list = <<>>
  /\ fpc = "idle"
  /\ lookup_log = <<>>
  /\ NoReport
  /\ NoParse

Next ==
  \/ search_by_keywords_step
  \/ search_by_keywords_return
  \/ search_by_authors_step
  \/ search_by_authors_return
  \/ search_by_journal_and_topic_step
  \/ search_by_journal_and_topic_return
  \/ build_result_dict_call
  \/ fetch_pubs_from_ID_list_step
  \/ fetch_pubs_from_ID_list_return
  \/ build_result_dict_store
  \/ build_result_dict_return
  \/ report

Spec == Init /\ [][Next]_vars

(***************************************************************************)
(* fetch_pubs_from_ID_list called on its own.                              *)
(***************************************************************************)
NoSettings ==
  [ entrez_email |-> <<>>, search_keywords |-> <<>>, search_authors |-> <<>>,
    journal_and_topics |-> <<>>, pub_days_ago |-> 0 ]

InitFetch ==
  /\ settings = NoSettings
  /\ pc = "off"
  /\ i = 1
  /\ NoResults
  /\ ID_list \in SeqsUpTo(IDs, MaxIDList)
  /\ entrez_email \in EntrezEmails
  /\ fi = 1
  /\ result_list = <<>>
  /\ fpc = "loop"
  /\ lookup_log = <<>>
  /\ NoReport
  /\ NoParse

NextFetch ==
  \/ fetch_pubs_from_ID_list_step
  \/ fetch_pubs_from_ID_list_return

SpecFetch == InitFetch /\ [][NextFetch]_vars

(***************************************************************************)
(* parse_search_file (pub_scraper.py)                                      *)
(***************************************************************************)
\* lines of a settings file, without their newline
FileLines ==
  { <<"#", " ", "note">>,
    <<"$", " ", "search_keywords">>,
    <<"$", "search_keywords">>,
    <<"CRISPR">>,
    <<>> }

\* the line the file object yields at position p: the text and its newline,
\* or the empty string at the end of the file
ReadLine(f, p) == IF p <= Len(f) THEN Append(f[p], "\n") ELSE <<>>

\* one turn of "for line in f"
parse_search_file_line ==
  /\ ppc = "lines"
  /\ fpos <= Len(search_file)
  /\ fpos' = fpos + 1
  /\ LET line == ReadLine(search_file, fpos)
         fields == Split(Strip(line))
     IN IF line[1] = "#"
        THEN UNCHANGED <<ppc, key, settings_dict>>
        ELSE IF line[1] = "$"
        THEN IF Len(fields) < 2
             THEN /\ ppc' = "raised"
                  /\ UNCHANGED <<key, settings_dict>>
             ELSE /\ key' = fields[2]
                  /\ settings_dict' = ODSet(settings_dict, fields[2], <<>>)
                  /\ ppc' = "section"
        ELSE UNCHANGED <<ppc, key, settings_dict>>
  /\ UNCHANGED <<settings, pc, i, searchVars, buildVars, fetchVars, reportVars,
                 search_file>>

\* one turn of "while True": line[0] is read before line is compared with '',
\* and the except clause names EOFError only
parse_search_file_section_line ==
  /\ ppc = "section"
  /\ fpos' = IF fpos <= Len(search_file) THEN fpos + 1 ELSE fpos
  /\ LET line == Strip(ReadLine(search_file, fpos))
     IN IF line = <<>>
        THEN /\ ppc' = "raised"
             /\ UNCHANGED settings_dict
        ELSE IF line[1] = "#"
        THEN UNCHANGED <<ppc, settings_dict>>
        ELSE IF line = <<>>
        THEN /\ ppc' = "lines"
             /\ UNCHANGED settings_dict
        ELSE /\ settings_dict' =
                  [n \in 1..Len(settings_dict) |->
                     IF settings_dict[n][1] = key
                     THEN <<key, Append(settings_dict[n][2], line)>>
                     ELSE settings_dict[n]]
             /\ UNCHANGED ppc
  /\ UNCHANGED <<settings, pc, i, searchVars, buildVars, fetchVars, reportVars,
                 search_file, key>>

parse_search_file_return ==
  /\ ppc = "lines"
  /\ fpos > Len(search_file)
  /\ ppc' = "returned"
  /\ UNCHANGED <<settings, pc, i, searchVars, buildVars, fetchVars, reportVars,
                 search_file, fpos, key, settings_dict>>

InitParse ==
  /\ settings = NoSettings
  /\ pc = "off"
  /\ i = 1
  /\ NoResults
  /\ ID_list = <<>>
  /\ entrez_email = <<>>
  /\ fi = 1
  /\ result_list = <<>>
  /\ fpc = "idle"
  /\ lookup_log = <<>>
  /\ NoReport
  /\ search_file \in SeqsUpTo(FileLines, MaxLines)
  /\ fpos = 1
  /\ ppc = "lines"
  /\ key = <<>>
  /\ settings_dict = <<>>

NextParse ==
  \/ parse_search_file_line
  \/ parse_search_file_section_line
  \/ parse_search_file_return

SpecParse == InitParse /\ [][NextParse]_vars

(***************************************************************************)
(* Properties                                                              *)
(***************************************************************************)
IdsOf(log) == [n \in 1..Len(log) |-> log[n].id]

OkLookups(log) == SelectSeq(log, LAMBDA e : e.outcome = "ok")

\* C1: a failing lookup (in PubMedLookup or in Publication) never raises out
\* of fetch_pubs_from_ID_list: the call returns normally and every identifier
\* of the sequence has been looked up.
C1_LookupFailureNeverRaises ==
  /\ fpc # "raised"
  /\ fpc = "returned" => IdsOf(lookup_log) = ID_list

\* Whenever fetch_pubs_from_ID_list returns, its list holds exactly the
\* publications of the identifiers whose lookup succeeded, once each, in the
\* order of the identifiers.
ReturnedListIsTheSuccessfulLookups ==
  fpc = "returned" =>
    LET ok == OkLookups(lookup_log)
    IN /\ IdsOf(lookup_log) = ID_list
       /\ Len(result_list) = Len(ok)
       /\ \A n \in 1..Len(ok) : result_list[n] = Publication(ok[n].id)
       /\ Len(result_list) <= Len(ID_list)

\* C2: for every identifier sequence and every set of failing lookups,
\* fetch_pubs_from_ID_list returns a list, and the list holds exactly the
\* publications of the non-failing identifiers, once each, in the order of
\* their identifiers, so its length is between 0 and the sequence's length.
C2_ReturnsThePublicationsOfTheNonFailing ==
  /\ fpc \in {"returned", "raised"} => fpc = "returned"
  /\ ReturnedListIsTheSuccessfulLookups

\* the key of one configured journal_and_topics line: its formatted query
JournalTopicKey(line) ==
  LET d == parse_journal_topics(<<line>>)
  IN FormatJournalTopic(d[1][1], d[1][2])

JournalOf(line) == parse_journal_topics(<<line>>)[1][1]

\* the keys of the configured terms of category c, in configured order
ConfiguredKeys(c) ==
  CASE c = 1 -> settings.search_keywords
    [] c = 2 -> settings.search_authors
    [] c = 3 -> [n \in 1..Len(settings.journal_and_topics) |->
                   JournalTopicKey(settings.journal_and_topics[n])]

FinalKeys(c) == ODKeys(all_results_dict[c][2])

NoRepeat(s) == \A m, n \in 1..Len(s) : m # n => s[m] # s[n]

\* no term of category c is configured twice (for journal+topic: no journal
\* twice, and no two lines with the same formatted query)
NoRepeatedTerm(c) ==
  /\ NoRepeat(ConfiguredKeys(c))
  /\ c = 3 => NoRepeat([n \in 1..Len(settings.journal_and_topics) |->
                          JournalOf(settings.journal_and_topics[n])])

KeysFollowConfiguration(c) ==
  \A n \in 1..Len(ConfiguredKeys(c)) :
    /\ n <= Len(FinalKeys(c))
    /\ FinalKeys(c)[n] = ConfiguredKeys(c)[n]

\* C3 as stated: in the final results, the Nth key of every category is the
\* Nth configured term of that category, for every configured term list.
C3_NthKeyIsNthConfiguredTerm ==
  pc = "done" => \A c \in 1..3 : KeysFollowConfiguration(c)

\* C3, amended: in the final results, the Nth key of a category is the Nth
\* configured term of that category whenever no term of the category is
\* configured twice.
C3_NthKeyIsNthDistinctConfiguredTerm ==
  pc = "done" =>
    \A c \in 1..3 :
      NoRepeatedTerm(c) =>
        /\ KeysFollowConfiguration(c)
        /\ Len(FinalKeys(c)) = Len(ConfiguredKeys(c))

C3_Witness ==
  /\ pc = "done"
  /\ Len(settings.journal_and_topics) = 2
  /\ NoRepeatedTerm(3)
  /\ Len(settings.search_keywords) = 1
  /\ Len(FinalKeys(3)) = 2

\* the <<term, pub_list>> entries of all categories, in report order
AllTermEntries ==
  all_results_dict[1][2] \o all_results_dict[2][2] \o all_results_dict[3][2]

TagPositions(tag) ==
  {p \in 1..Len(message_body) : message_body[p][1] = tag}

NthPosition(S, n) == CHOOSE p \in S : Cardinality({q \in S : q < p}) = n - 1

StructureTags == {"h2", "h4", "br", "nl", "header", "tail"}

\* the lines of the body between the term heading at p and the next heading,
\* separator or end of the body
BlockAfter(p) ==
  LET q == CHOOSE q \in (p + 1)..Len(message_body) :
             /\ message_body[q][1] \in StructureTags
             /\ \A r \in (p + 1)..(q - 1) : message_body[r][1] \notin StructureTags
  IN SubSeq(message_body, p + 1, q - 1)

\* C4: in the body, every term key of every category has exactly one term
\* heading; the heading is followed by exactly one "No results" notice when
\* the term's publication list is empty, and otherwise by exactly one entry
\* (title, journal, authors) per publication, in list order, and no notice.
C4_OneHeadingThenNoticeOrEntries ==
  pc = "done" =>
    /\ Cardinality(TagPositions("h4")) = Len(AllTermEntries)
    /\ \A k \in 1..Len(AllTermEntries) :
         LET p == NthPosition(TagPositions("h4"), k)
             term == AllTermEntries[k][1]
             pubs == AllTermEntries[k][2]
             block == BlockAfter(p)
         IN /\ message_body[p] = <<"h4", term>>
            /\ IF Len(pubs) = 0
               THEN block = <<<<"none", term, settings.pub_days_ago>>>>
               ELSE /\ Len(block) = 3 * Len(pubs)
                    /\ \A j \in 1..Len(pubs) :
                         /\ block[3 * j - 2] = <<"title", pubs[j].url, pubs[j].title>>
                         /\ block[3 * j - 1] = <<"journal", pubs[j].journal>>
                         /\ block[3 * j] = <<"authors", pubs[j].authors>>

C4_Witness ==
  /\ pc = "done"
  /\ \E k \in 1..Len(AllTermEntries) : Len(AllTermEntries[k][2]) = 0
  /\ \E k \in 1..Len(AllTermEntries) : Len(AllTermEntries[k][2]) = 1
  /\ \E k \in 1..Len(AllTermEntries) : Len(AllTermEntries[k][2]) = 2

\* publications fetched so far in the run
HitsSoFar ==
  SumLens(keyword_publications) + SumLens(author_publications)
    + SumLens(journal_topic_publications) + SumLens(data_dict)
    + (IF fpc \in {"loop", "returned", "raised"} THEN Len(result_list) ELSE 0)

\* C5: the hit count of the subject line is the sum of the publication-list
\* lengths over all terms of all categories of the final results, which is
\* the number of entries the body renders and the number of successful
\* lookups of the run; every successful lookup adds one to the count and no
\* step of the run lowers it.
C5_TotalHits ==
  /\ [](pc = "done" =>
          /\ total_hits = SumLens(all_results_dict[1][2])
                            + SumLens(all_results_dict[2][2])
                            + SumLens(all_results_dict[3][2])
          /\ total_hits = Cardinality(TagPositions("title"))
          /\ total_hits = Len(OkLookups(lookup_log)))
  /\ [][/\ HitsSoFar' - HitsSoFar
            = Len(OkLookups(lookup_log')) - Len(OkLookups(lookup_log))
        /\ HitsSoFar' >= HitsSoFar]_vars

C5_Witness ==
  /\ pc = "done"
  /\ total_hits = 3
  /\ \E n \in 1..Len(lookup_log) : lookup_log[n].outcome = "bad_record"

CategoryNames ==
  <<"Keyword Searches", "Author Searches", "Journal and Topic Searches">>

\* C6: whenever the report has been rendered, the final results hold exactly
\* the three categories and the body holds exactly one category heading for
\* each, in the order Keyword Searches, Author Searches, Journal and Topic
\* Searches, also for categories without terms.
C6_ThreeCategoriesInOrder ==
  pc = "done" =>
    /\ ODKeys(all_results_dict) = CategoryNames
    /\ SelectSeq(message_body, LAMBDA t : t[1] = "h2")
         = [n \in 1..3 |-> <<"h2", CategoryNames[n]>>]

C6_Witness ==
  /\ pc = "done"
  /\ settings.search_keywords = <<>>
  /\ settings.search_authors # <<>>
  /\ settings.journal_and_topics = <<>>

CallsOf(fn) == SelectSeq(search_log, LAMBDA e : e.fn = fn)

\* the identifier list returned by the last call of fn for key k
LastResult(fn, k) ==
  LET calls == SelectSeq(CallsOf(fn), LAMBDA e : e.key = k)
  IN calls[Len(calls)].ids

OneCallPerOccurrenceLastWins(fn, terms, results) ==
  /\ [n \in 1..Len(CallsOf(fn)) |-> CallsOf(fn)[n].key] = terms
  /\ NoRepeat(ODKeys(results))
  /\ {results[n][1] : n \in 1..Len(results)} = {terms[n] : n \in 1..Len(terms)}
  /\ \A n \in 1..Len(results) : results[n][2] = LastResult(fn, results[n][1])

AfterKeywordSearch ==
  pc \in {"search_authors", "search_journal_topic", "report", "done"} \cup BuildPcs

AfterAuthorSearch ==
  pc \in {"search_journal_topic", "report", "done"} \cup BuildPcs

\* C7: for the keyword and the author list, one search call is issued for
\* each occurrence of a term, also of a repeated one, and the returned
\* mapping holds one entry per distinct term, whose identifier list is the
\* one returned by the call for the term's last occurrence.
C7_DuplicateTermLastWriteWins ==
  /\ AfterKeywordSearch =>
       OneCallPerOccurrenceLastWins("keywords", settings.search_keywords,
                                    keyword_results)
  /\ AfterAuthorSearch =>
       OneCallPerOccurrenceLastWins("authors", settings.search_authors,
                                    author_results)

C7_Witness ==
  /\ pc = "search_journal_topic"
  /\ Len(settings.search_authors) = 2
  /\ settings.search_authors[1] = settings.search_authors[2]
  /\ Len(CallsOf("authors")) = 2
  /\ CallsOf("authors")[1].ids = <<"222", "111">>
  /\ CallsOf("authors")[2].ids = <<>>
  /\ author_results = <<<<settings.search_authors[1], <<>>>>>>

SearchFailed == \E n \in 1..Len(search_log) : ~search_log[n].ok

\* C8: once a search call has failed, the run is over: the failed call is the
\* last search call issued, no lookup is performed, no report is composed
\* and nothing is handed to the mail server.
C8_SearchFailureIsFatal ==
  SearchFailed =>
    /\ ~search_log[Len(search_log)].ok
    /\ \A n \in 1..(Len(search_log) - 1) : search_log[n].ok
    /\ lookup_log = <<>>
    /\ all_results_dict = <<>>
    /\ message_body = <<>>
    /\ mail = "none"
    /\ pc \notin {"report", "done"} \cup BuildPcs

C8_Witness ==
  /\ SearchFailed
  /\ Len(search_log) = 3
  /\ search_log[1].ids # <<>>
  /\ search_log[3].fn = "journal_topic"

\* C9: every lookup of a run is given the configured Entrez e-mail address
\* (settings entrez_email_address) as its credentials argument.
C9_LookupsGetEntrezEmail ==
  \A n \in 1..Len(lookup_log) : lookup_log[n].email = settings.entrez_email

\* a file of the shape the claim covers: every '$' line is "$ key", and no
\* '$' line stands between a header and the blank line closing its section
RECURSIVE WellFormedFrom(_, _)
WellFormedFrom(lines, in_section) ==
  IF lines = <<>> THEN TRUE
  ELSE LET line == Head(lines)
       IN IF line # <<>> /\ line[1] = "$"
          THEN /\ ~in_section
               /\ Len(Split(line)) >= 2
               /\ WellFormedFrom(Tail(lines), TRUE)
          ELSE WellFormedFrom(Tail(lines), in_section /\ Strip(line) # <<>>)

\* what the docstring and comments of parse_search_file describe: each
\* header's key mapped to the lines after it, up to the blank line or the
\* end of the file, '#' lines left out
RECURSIVE SettingsFrom(_, _, _)
SettingsFrom(lines, in_section, d) ==
  IF lines = <<>> THEN d
  ELSE LET line == Head(lines)
       IN IF line # <<>> /\ line[1] = "#"
          THEN SettingsFrom(Tail(lines), in_section, d)
          ELSE IF in_section
          THEN IF Strip(line) = <<>>
               THEN SettingsFrom(Tail(lines), FALSE, d)
               ELSE SettingsFrom(Tail(lines), TRUE,
                      [d EXCEPT ![Len(d)] = <<d[Len(d)][1], Append(d[Len(d)][2], Strip(line))>>])
          ELSE IF line # <<>> /\ line[1] = "$"
          THEN SettingsFrom(Tail(lines), TRUE, Append(d, <<Split(line)[2], <<>>>>))
          ELSE SettingsFrom(Tail(lines), FALSE, d)

\* C10: on a settings file whose header lines are each followed by value
\* lines and closed by a blank line or the end of the file, parse_search_file
\* ends without raising and returns each header's key mapped to the lines of
\* its section, in file order, '#' lines ignored.
C10_ParseSearchFileReturnsSections ==
  ppc \in {"returned", "raised"} /\ WellFormedFrom(search_file, FALSE) =>
    /\ ppc = "returned"
    /\ settings_dict = SettingsFrom(search_file, FALSE, <<>>)

====
